---- MODULE Spec2Model ----
(***************************************************************************)
(* MicroMedics: the gameplay loop, the scene flow and the progress store   *)
(* of the three builds of the game,                                        *)
(*   v5  src/src/MicroMedicsGameProblematic.jsx  (narrative flow build),   *)
(*   v4  src/unnamed/part_000                    (investor story build),   *)
(*   v3  src/unnamed/part_001                    (investor demo build).    *)
(* One Phaser game step is: the scene manager processes the queued scene   *)
(* operations (ProcessQueue), the clock advances, the arcade physics step  *)
(* calls the overlap callbacks (OrbOverlap, PowerupOverlap, VirusOverlap)  *)
(* and the active scene's update(time, delta) runs (update).  Pointer      *)
(* handlers run between game steps.                                        *)
(*                                                                         *)
(* The code reads a timestamp field only in a difference with the clock    *)
(* (this.time.now - this.lastHitAt).  The model keeps that difference,     *)
(* saturated at the threshold it is compared with, instead of the pair     *)
(* (clock, timestamp).                                                     *)
(*                                                                         *)
(* Spec is the game from the first scene on.  LoadSpec is the start-up,    *)
(* G.load() over whatever the storage key holds.  JumpSpec is one level    *)
(* with its player controller (keydown-UP, applyMoveAndJump), which reads  *)
(* and writes fields nothing else in the game reads.                       *)
(***************************************************************************)
EXTENDS Integers, Sequences, FiniteSets, TLC

\* ------------------------------------------------------------- bounds
\* Level completion is not taken once G.stars has reached MaxStars.
MaxStars == 2
\* Scene operations a pointer handler may still queue before the next game step.
MaxQueue == 2
\* The frame durations (ms) a game step draws its delta from.
Deltas == {600, 3000}
\* The values of "stars" in a record found in storage at start-up.
StoredStars == {-1, 1}
\* The frame durations (ms) of the player controller's frames.
JumpDeltas == {40, 100}
\* keydown-UP events are not taken once a level has received MaxPresses of them.
MaxPresses == 3

\* ---------------------------------------------------- program constants
HIT_COOLDOWN_MS == 650
POWER_MS == 6000
FULL_HEALTH == 100
HIT_DAMAGE == 10
JUMP_BUFFER_MS == 140
COYOTE_TIME_MS == 140
CirculatoryMaxE == 10
LungsMaxE == 12
CirculatoryOrbs == 12
LungsOrbs == 14
CirculatoryViruses == 2
LungsViruses == 3

Variants == {"v3", "v4", "v5"}
Levels == {"CirculatoryLevel", "LungsLevel"}

FactHeartPumps == "The heart pumps ~100,000 times per day."
FactValves == "Valves prevent backflow, keeping blood moving the right way."
FactAlveoli == "Alveoli are tiny sacs where oxygen enters the blood."
FactDiaphragm == "The diaphragm helps pull air into the lungs by creating negative pressure."

VARIABLES
    variant,      \* which build runs (fixed for a session)
    storage,      \* localStorage["mm_progress"]
    stars,        \* G.stars
    systems,      \* G.systems
    facts,        \* G.facts
    health,       \* G.health
    energy,       \* G.energy
    level,        \* G.level
    powerMode,    \* G.powerMode
    powerTimer,   \* G.powerTimer
    scene,        \* the key of the running scene
    queue,        \* the scene manager's queued starts, oldest first
    slide,        \* CinematicScene.slide
    _completed,   \* the level scene's _completed
    isPaused,     \* the level's physics.world.isPaused
    sinceHit,     \* the level's time.now - lastHitAt, saturated at HIT_COOLDOWN_MS
    _brain,       \* the level scene's _brain
    _virus,       \* the level scene's _virus
    orbs,         \* the number of orbs left in this.orbs
    powerups,     \* the number of pickups left in this.powerups
    viruses,      \* this.viruses' children: per enemy, its vulnerable field
    heartBtnOn,   \* BodyMap: heartBtn has its pointerdown listener
    lungsBtnOn,   \* BodyMap: lungsBtn has its pointerdown listener
    lastClick,    \* the button the last pointer event of this scene hit
    toast,        \* the notice that pointer event opened ("" for none)
    frame,        \* the parity of the number of frames the levels have run
    sinceDamage,  \* time since G.health last went down, saturated at HIT_COOLDOWN_MS
    spent,        \* the number of stars the hub's repair has taken in this session
    hadScore,     \* G.score was above 0 when the running scene was started
    jumpBufferAge, \* the level's time.now - jumpBufferTime, saturated at StaleAge
    coyoteAge,    \* the level's time.now - coyoteTime, saturated at StaleAge
    jumps,        \* how often the running level has set the player's JUMP_VELOCITY
    presses,      \* the number of keydown-UP events the running level has received
    sincePress,   \* time since the last keydown-UP event, saturated at StaleAge
    sinceGround,  \* time since the last frame with the player on the ground, saturated
    pressed,      \* a keydown-UP event came after the last jump
    grounded      \* a frame after the last jump found the player on the ground

progressVars == <<storage, stars, systems, facts>>
runVars == <<health, energy, powerMode, powerTimer>>
levelVars == <<_completed, isPaused, sinceHit, _brain, _virus, orbs, powerups, viruses>>
hubVars == <<heartBtnOn, lungsBtnOn>>
jumpVars == <<jumpBufferAge, coyoteAge, jumps, presses, sincePress, sinceGround, pressed, grounded>>
clickVars == <<lastClick, toast>>
vars == <<variant, storage, stars, systems, facts, health, energy, level,
          powerMode, powerTimer, scene, queue, slide, _completed, isPaused,
          sinceHit, _brain, _virus, orbs, powerups, viruses, heartBtnOn,
          lungsBtnOn, lastClick, toast, frame, sinceDamage, spent, hadScore,
          jumpBufferAge, coyoteAge, jumps, presses, sincePress, sinceGround,
          pressed, grounded>>

Min(a, b) == IF a < b THEN a ELSE b
Max(a, b) == IF a > b THEN a ELSE b
Includes(s, t) == \E i \in 1..Len(s) : s[i] = t

\* ------------------------------------------------------ progress store
\* The text under the storage key: no item, a text JSON.parse rejects, or the
\* JSON text of an object, given by what its three fields hold.
\* or the JSON text of another value (null, 0, 7).  A field of the object is
\* missing, null, a number, a string, an array or an object; the members
\* "heart" and "lungs" of a systems object are given by their JSON text.
NoItem == [kind |-> "absent"]
Unparsable == [kind |-> "garbage"]
JsonLiteral(l) == [kind |-> "literal", lit |-> l]
JsonNum(n) == [t |-> "num", n |-> n]
JsonStr(s) == [t |-> "str", s |-> s]
JsonNull == [t |-> "null"]
JsonMissing == [t |-> "missing"]
JsonBool(b) == IF b THEN "true" ELSE "false"
JsonObject(st, sy, fa) == [kind |-> "json", stars |-> st, systems |-> sy, facts |-> fa]

\* Stringify that leaves the facts out of the record
Stringify_NoFacts(p) ==
    JsonObject(JsonNum(p.stars),
               [t |-> "obj", heart |-> JsonBool(p.systems.heart),
                             lungs |-> JsonBool(p.systems.lungs)],
               JsonMissing)

\* JSON.stringify({ stars, systems, facts })
Stringify(p) ==
    JsonObject(JsonNum(p.stars),
               [t |-> "obj", heart |-> JsonBool(p.systems.heart),
                             lungs |-> JsonBool(p.systems.lungs)],
               [t |-> "arr", a |-> p.facts])

\* loadProgress(): the parsed value, or "null"
loadProgress(text) ==
    IF text.kind \in {"json", "literal"} /\ text # JsonLiteral("null")
    THEN text
    ELSE [kind |-> "null"]

\* !p
Falsy(p) == p.kind = "null" \/ p = JsonLiteral("0")

\* p.stars, p.systems, p.facts: a number has no such property
Field(p, k) == IF p.kind = "json" THEN p[k] ELSE JsonMissing

\* x ?? ..., x?. ...: x is undefined or null
Nullish(f) == f.t \in {"missing", "null"}

\* !!p.systems?.heart, !!p.systems?.lungs
Flag(f, k) == f.t = "obj" /\ f[k] \in {"true", "1"}

\* p.stars ?? 0, as a JSON value
loadedStars(p) == IF Nullish(Field(p, "stars")) THEN JsonNum(0) ELSE Field(p, "stars")

\* A JavaScript value held by G: a number is an integer of the model, a value
\* of another type is kept as its JSON value
JsValue(f) == IF f.t = "num" THEN f.n ELSE f

\* G.load(): the progress fields after it, from the fields g before it
load(g, text) ==
    LET p == loadProgress(text) IN
    IF Falsy(p) THEN g
    ELSE [stars |-> JsValue(loadedStars(p)),
          systems |-> [heart |-> Flag(Field(p, "systems"), "heart"),
                       lungs |-> Flag(Field(p, "systems"), "lungs")],
          facts |-> IF Field(p, "facts").t = "arr" THEN Field(p, "facts").a ELSE <<>>]

\* The G literal's progress fields
DefaultProgress == [stars |-> 0, systems |-> [heart |-> FALSE, lungs |-> FALSE], facts |-> <<>>]

\* The progress store as one value: G's three fields and the stored text
Store == [stars |-> stars, systems |-> systems, facts |-> facts, storage |-> storage]
Snapshot(s) == [stars |-> s.stars, systems |-> s.systems, facts |-> s.facts]

\* G.persist()
persist(s) == [s EXCEPT !.storage = Stringify(Snapshot(s))]

addStars(s, n) == persist([s EXCEPT !.stars = Max(0, s.stars + n)])

addFact(s, t) ==
    IF Includes(s.facts, t) THEN s
    ELSE persist([s EXCEPT !.facts = Append(s.facts, t)])

\* setSystem that does not call G.persist()
setSystem_NoPersist(s, k, v) ==
    [s EXCEPT !.systems = [s.systems EXCEPT ![k] = v]]

setSystem(s, k, v) ==
    persist([s EXCEPT !.systems = [s.systems EXCEPT ![k] = v]])

SetStore(s) ==
    /\ stars' = s.stars
    /\ systems' = s.systems
    /\ facts' = s.facts
    /\ storage' = s.storage

\* What storage may hold when the page is opened
StoredRecords ==
    {NoItem, Unparsable}
    \cup {JsonObject(JsonNum(n),
                     [t |-> "obj", heart |-> "false", lungs |-> "false"],
                     [t |-> "arr", a |-> <<>>]) : n \in StoredStars}

\* ------------------------------------------------------------- levels
MaxE(s) == IF s = "CirculatoryLevel" THEN CirculatoryMaxE ELSE LungsMaxE
OrbCount(s) == IF s = "CirculatoryLevel" THEN CirculatoryOrbs ELSE LungsOrbs
VirusCount(s) == IF s = "CirculatoryLevel" THEN CirculatoryViruses ELSE LungsViruses
\* SystemOf that names the lungs for either level
SystemOf_Lungs(s) == "lungs"

SystemOf(s) == IF s = "CirculatoryLevel" THEN "heart" ELSE "lungs"

\* The facts complete() adds, in order
LevelFacts(v, s) ==
    IF s = "CirculatoryLevel"
    THEN (IF v = "v3" THEN <<FactHeartPumps>> ELSE <<FactHeartPumps, FactValves>>)
    ELSE (IF v = "v3" THEN <<FactAlveoli>> ELSE <<FactAlveoli, FactDiaphragm>>)

RECURSIVE addFacts(_, _)
addFacts(s, ts) ==
    IF ts = <<>> THEN s ELSE addFacts(addFact(s, Head(ts)), Tail(ts))

\* this.viruses.getChildren() right after create(): no enemy is vulnerable
FreshViruses(s) == [i \in 1..VirusCount(s) |-> [vulnerable |-> FALSE]]

\* SetVulnerable that stops after the first enemy of the group
SetVulnerable_FirstOnly(vs, b) ==
    [i \in DOMAIN vs |-> IF i = 1 THEN [vs[i] EXCEPT !.vulnerable = b] ELSE vs[i]]

\* viruses.children.iterate(v => v.vulnerable = b)
SetVulnerable(vs, b) == [i \in DOMAIN vs |-> [vs[i] EXCEPT !.vulnerable = b]]

\* v.destroy(): the enemy leaves the group and the physics world
Destroy(vs, v) == SubSeq(vs, 1, v - 1) \o SubSeq(vs, v + 1, Len(vs))

\* G.score is written by the three overlap callbacks alone, each time next to
\* the destroy() of the object touched, and no code reads it but syncHud().
\* The model keeps what the running attempt has added to it, as what the
\* objects destroyed in the attempt were worth, and whether it was above 0
\* when the attempt started (hadScore): nothing but the G literal sets it to 0.
OrbScore == 10
BonusScore(s) == IF s = "CirculatoryLevel" THEN 100 ELSE 120

\* KillScore that pays the Circulatory level's 200 in either level
KillScore_Same(s) == 200

KillScore(s) == IF s = "CirculatoryLevel" THEN 200 ELSE 220

\* G.score minus G.score at the running level's create()
scoreGained ==
    IF scene \in Levels
    THEN OrbScore * (OrbCount(scene) - orbs)
         + BonusScore(scene) * (1 - powerups)
         + KillScore(scene) * (VirusCount(scene) - Len(viruses))
    ELSE 0

\* ---------------------------------------------------- player controller
\* A clock difference above both windows: what time.now - 0 is, the clock
\* being far above 140 ms when a level is created
StaleAge == Max(JUMP_BUFFER_MS, COYOTE_TIME_MS) + 1

Aged(age, dt) == Min(age + dt, StaleAge)

\* The controller's fields before any level was created, and after
\* enableCursors(): jumpBufferTime = 0, coyoteTime = 0
NoCursors ==
    /\ jumpBufferAge = StaleAge
    /\ coyoteAge = StaleAge
    /\ jumps = 0
    /\ presses = 0
    /\ sincePress = StaleAge
    /\ sinceGround = StaleAge
    /\ pressed = FALSE
    /\ grounded = FALSE

\* enableCursors(scene)
enableCursors ==
    /\ jumpBufferAge' = StaleAge
    /\ coyoteAge' = StaleAge
    /\ jumps' = 0
    /\ presses' = 0
    /\ sincePress' = StaleAge
    /\ sinceGround' = StaleAge
    /\ pressed' = FALSE
    /\ grounded' = FALSE

\* ------------------------------------------------------- initial state
\* new Phaser.Game(config) after G.load(): Boot's create() has queued Title.
\* A level is never created in the first 650 ms of the clock, so that the
\* constructor's lastHitAt = 0 counts as an elapsed cooldown.
Init ==
    /\ variant \in Variants
    /\ storage \in StoredRecords
    /\ LET g == load(DefaultProgress, storage) IN
        /\ stars = g.stars
        /\ systems = g.systems
        /\ facts = g.facts
    /\ health = FULL_HEALTH
    /\ energy = 0
    /\ level = 1
    /\ powerMode = FALSE
    /\ powerTimer = 0
    /\ scene = "Boot"
    /\ queue = <<"Title">>
    /\ slide = 0
    /\ _completed = FALSE
    /\ isPaused = FALSE
    /\ sinceHit = HIT_COOLDOWN_MS
    /\ _brain = FALSE
    /\ _virus = FALSE
    /\ orbs = 0
    /\ powerups = 0
    /\ viruses = <<>>
    /\ heartBtnOn = FALSE
    /\ lungsBtnOn = FALSE
    /\ lastClick = ""
    /\ toast = ""
    /\ frame = 0
    /\ sinceDamage = HIT_COOLDOWN_MS
    /\ spent = 0
    /\ hadScore = FALSE
    /\ NoCursors

\* ------------------------------------------------------- scene manager
\* this.scene.start(key) / this.scene.restart(): queued until the next game step
Enqueue(key) ==
    /\ Len(queue) < MaxQueue
    /\ queue' = Append(queue, key)

\* resetStatsForLevel that leaves G.energy and G.powerTimer as they are
resetStatsForLevel_HealthOnly ==
    /\ health' = FULL_HEALTH
    /\ powerMode' = FALSE
    /\ UNCHANGED <<energy, powerTimer>>

\* G.resetStatsForLevel()
resetStatsForLevel ==
    /\ health' = FULL_HEALTH
    /\ energy' = 0
    /\ powerMode' = FALSE
    /\ powerTimer' = 0

\* SceneManager.processQueue(): every queued scene is started in turn, its
\* create() runs, and the last one started is left running.
ProcessQueue ==
    /\ queue # <<>>
    /\ LET target == queue[Len(queue)]
           anyLevel == \E i \in 1..Len(queue) : queue[i] \in Levels
       IN
        /\ scene' = target
        /\ queue' = <<>>
        \* CirculatoryLevel.create / LungsLevel.create: G.resetStatsForLevel()
        /\ IF anyLevel
           THEN resetStatsForLevel
           ELSE UNCHANGED runVars
        \* the level's own fields, set by its create(); no code reads the
        \* fields of a level that was shut down before its create() sets them
        \* again, and the model forgets them at the shutdown
        /\ _completed' = FALSE
        /\ sinceHit' = HIT_COOLDOWN_MS
        /\ _brain' = FALSE
        /\ _virus' = FALSE
        \* the groups and the physics world of the scene left running
        /\ isPaused' = FALSE
        /\ orbs' = IF target \in Levels THEN OrbCount(target) ELSE 0
        /\ powerups' = IF target \in Levels THEN 1 ELSE 0
        /\ viruses' = IF target \in Levels THEN FreshViruses(target) ELSE <<>>
        \* BodyMapScene.create: button(..., enabled)
        /\ heartBtnOn' = (target = "BodyMap" /\ ~systems.heart /\ stars >= 1)
        /\ lungsBtnOn' = (target = "BodyMap" /\ systems.heart)
        \* time in the scenes between the levels is not measured: a level entered
        \* from one of them finds the last loss of health out of the cooldown
        /\ sinceDamage' = IF target \in Levels THEN sinceDamage ELSE HIT_COOLDOWN_MS
    /\ lastClick' = ""
    /\ toast' = ""
    \* CinematicScene.slide is set by the constructor alone and the cinematic
    \* is entered once: the model forgets the counter when the scene is left
    /\ slide' = IF queue[Len(queue)] = "Cinematic" THEN slide ELSE 0
    \* create() leaves G.score as the scene before left it
    /\ hadScore' = (hadScore \/ scoreGained > 0)
    \* enableCursors() of a level's create()
    /\ enableCursors
    /\ UNCHANGED <<variant, spent, progressVars, level, frame>>

\* ------------------------------------------------- narrative scenes
Clicked(button) ==
    /\ lastClick' = button
    /\ toast' = ""

\* TitleScene: btn.on("pointerdown")
TitleStart ==
    /\ scene = "Title"
    /\ Enqueue(IF variant = "v3" THEN "Cinematic" ELSE "MissionBrief")
    /\ Clicked("start")
    /\ UNCHANGED <<variant, jumpVars, spent, hadScore, progressVars, runVars, level, scene, slide, levelVars, hubVars, frame, sinceDamage>>

\* MissionBriefScene: btn.on("pointerdown")
BriefClick ==
    /\ scene = "MissionBrief"
    /\ IF variant = "v4"
       THEN level' = 1 /\ Enqueue("CirculatoryLevel")
       ELSE level' = level /\ Enqueue("Cinematic")
    /\ Clicked("brief")
    /\ UNCHANGED <<variant, jumpVars, spent, hadScore, progressVars, runVars, scene, slide, levelVars, hubVars, frame, sinceDamage>>

\* What the cinematic starts when its slides are over
AfterCinematic ==
    IF variant = "v3"
    THEN level' = 1 /\ Enqueue("CirculatoryLevel")
    ELSE level' = level /\ Enqueue("TravelToHeart")

\* CinematicScene: nextBtn.on("pointerdown")
CinematicNext ==
    /\ scene = "Cinematic"
    /\ slide' = slide + 1
    /\ IF slide + 1 >= 3
       THEN AfterCinematic
       ELSE UNCHANGED <<level, queue>>
    /\ Clicked("next")
    /\ UNCHANGED <<variant, jumpVars, spent, hadScore, progressVars, runVars, scene, levelVars, hubVars, frame, sinceDamage>>

\* CinematicScene: skip.on("pointerdown")
CinematicSkip ==
    /\ scene = "Cinematic"
    /\ AfterCinematic
    /\ Clicked("skip")
    /\ UNCHANGED <<variant, jumpVars, spent, hadScore, progressVars, runVars, scene, slide, levelVars, hubVars, frame, sinceDamage>>

\* TravelToHeart: the tween's onComplete
TravelToHeartDone ==
    /\ scene = "TravelToHeart"
    /\ queue = <<>>
    /\ Enqueue("CirculatoryLevel")
    /\ UNCHANGED <<variant, jumpVars, spent, hadScore, progressVars, runVars, level, scene, slide, levelVars,
                   hubVars, clickVars, frame, sinceDamage>>

\* TravelHLDone that starts the hub in every build
TravelHLDone_ToHub ==
    /\ scene = "TravelHL"
    /\ queue = <<>>
    /\ Enqueue("BodyMap")
    /\ UNCHANGED <<variant, jumpVars, spent, hadScore, progressVars, runVars, level, scene, slide, levelVars,
                   hubVars, clickVars, frame, sinceDamage>>

\* TravelHeartToLungs: the tween's onComplete
TravelHLDone ==
    /\ scene = "TravelHL"
    /\ queue = <<>>
    /\ Enqueue(IF variant = "v5" THEN "LungsLevel" ELSE "BodyMap")
    /\ UNCHANGED <<variant, jumpVars, spent, hadScore, progressVars, runVars, level, scene, slide, levelVars,
                   hubVars, clickVars, frame, sinceDamage>>

\* ------------------------------------------------------------ levels
\* The overlap callbacks run in the physics step of a level that is running:
\* not after physics.pause(), not in a scene about to be replaced.
Playing ==
    /\ scene \in Levels
    /\ queue = <<>>
    /\ ~isPaused

\* Collected without the test against maxE
Collected_Uncapped(e, maxE) == e + 1

\* overlap(player, orbs): if (G.energy<maxE) G.energy+=1
Collected(e, maxE) == IF e < maxE THEN e + 1 ELSE e

\* overlap(player, orbs)
OrbOverlap ==
    /\ Playing
    /\ orbs > 0
    /\ orbs' = orbs - 1
    /\ energy' = Collected(energy, MaxE(scene))
    /\ UNCHANGED <<variant, jumpVars, spent, hadScore, progressVars, health, level, powerMode, powerTimer, scene,
                   queue, slide, _completed, isPaused, sinceHit, sinceDamage, _brain,
                   _virus, powerups, viruses, hubVars, clickVars, frame>>

\* activatePower that leaves the enemies as they are
activatePower_NoFlags(ms) ==
    /\ powerMode' = TRUE
    /\ powerTimer' = ms
    /\ viruses' = viruses

\* activatePower(ms)
activatePower(ms) ==
    /\ powerMode' = TRUE
    /\ powerTimer' = ms
    /\ viruses' = SetVulnerable(viruses, TRUE)

\* endPower()
endPower ==
    /\ powerMode' = FALSE
    /\ powerTimer' = 0
    /\ viruses' = SetVulnerable(viruses, FALSE)

\* overlap(player, powerups)
PowerupOverlap ==
    /\ Playing
    /\ powerups > 0
    /\ powerups' = powerups - 1
    /\ activatePower(POWER_MS)
    /\ _brain' = TRUE
    /\ UNCHANGED <<variant, jumpVars, spent, hadScore, progressVars, health, energy, level, scene, queue, slide,
                   _completed, isPaused, sinceHit, sinceDamage, _virus, orbs, hubVars,
                   clickVars, frame>>

\* InCooldown without the comparison
InCooldown_Never == FALSE

\* overlap(player, viruses): this.time.now - this.lastHitAt < this.HIT_COOLDOWN_MS
InCooldown == sinceHit < HIT_COOLDOWN_MS

\* Damaged taking three times the damage, without the clamp at 0
Damaged_Unclamped(h) == h - 3 * HIT_DAMAGE

\* overlap(player, viruses): G.health -= 10; if (G.health<0) G.health=0
Damaged(h) == Max(h - HIT_DAMAGE, 0)

\* Defeats that holds for every enemy touched
Defeats_Always(v) == TRUE

\* overlap(player, viruses): if (G.powerMode && v.vulnerable)
Defeats(v) == powerMode /\ viruses[v].vulnerable

\* overlap(player, viruses), for the enemy v of the group
VirusOverlap(v) ==
    /\ Playing
    /\ v \in DOMAIN viruses
    /\ IF Defeats(v)
       THEN /\ viruses' = Destroy(viruses, v)
            /\ _virus' = TRUE
            /\ UNCHANGED <<health, sinceHit, sinceDamage>>
       ELSE IF InCooldown
       THEN UNCHANGED <<viruses, _virus, health, sinceHit, sinceDamage>>
       ELSE /\ sinceHit' = 0
            /\ sinceDamage' = IF Damaged(health) < health THEN 0 ELSE sinceDamage
            /\ health' = Damaged(health)
            /\ UNCHANGED <<viruses, _virus>>
    /\ UNCHANGED <<variant, jumpVars, spent, hadScore, progressVars, energy, level, powerMode, powerTimer, scene,
                   queue, slide, _completed, isPaused, _brain, orbs, powerups, hubVars,
                   clickVars, frame>>

\* ObjectivesMet without the two sub-goals
ObjectivesMet_EnergyOnly == energy >= MaxE(scene)

\* The condition update() tests before complete()
ObjectivesMet == energy >= MaxE(scene) /\ (_brain \/ _virus)

\* complete(), past its _completed guard: the rewards
complete(s) ==
    setSystem(addFacts(addStars(s, 1), LevelFacts(variant, scene)), SystemOf(scene), TRUE)

\* PowerCountdown that forgets G.powerTimer = 0 in endPower()
PowerCountdown_NoReset(dt) ==
    IF powerMode
    THEN /\ powerTimer' = powerTimer - dt
         /\ powerMode' = (powerTimer - dt > 0)
         /\ viruses' = IF powerTimer - dt > 0 THEN viruses ELSE SetVulnerable(viruses, FALSE)
    ELSE UNCHANGED <<powerMode, powerTimer, viruses>>

\* PowerCountdown that leaves the timer alone
PowerCountdown_Frozen(dt) == UNCHANGED <<powerMode, powerTimer, viruses>>

\* PowerCountdown that ends power mode only when the timer falls below 0
PowerCountdown_Late(dt) ==
    IF powerMode
    THEN IF powerTimer - dt < 0
         THEN endPower
         ELSE /\ powerTimer' = powerTimer - dt
              /\ UNCHANGED <<powerMode, viruses>>
    ELSE UNCHANGED <<powerMode, powerTimer, viruses>>

\* update(): if (G.powerMode) { G.powerTimer -= dt; if (G.powerTimer<=0) this.endPower(); }
PowerCountdown(dt) ==
    IF powerMode
    THEN IF powerTimer - dt <= 0
         THEN endPower
         ELSE /\ powerTimer' = powerTimer - dt
              /\ UNCHANGED <<powerMode, viruses>>
    ELSE UNCHANGED <<powerMode, powerTimer, viruses>>

\* update(): if (G.energy>=maxE && (this._brain || this._virus)) this.complete()
CompleteIfMet ==
    IF ObjectivesMet
    THEN /\ _completed' = TRUE
         /\ isPaused' = TRUE
         /\ SetStore(complete(Store))
    ELSE UNCHANGED <<_completed, isPaused, progressVars>>

\* RestartIfDead without the restart
RestartIfDead_Never == queue' = queue

\* update(): if (G.health<=0) this.scene.restart()
RestartIfDead == queue' = IF health <= 0 THEN <<scene>> ELSE queue

\* update without if (this._completed) return, and complete() without its guard
update_Ungated(dt) ==
    /\ scene \in Levels
    /\ queue = <<>>
    /\ ObjectivesMet => stars < MaxStars
    /\ frame' = 1 - frame
    /\ sinceHit' = Min(sinceHit + dt, HIT_COOLDOWN_MS)
    /\ sinceDamage' = Min(sinceDamage + dt, HIT_COOLDOWN_MS)
    /\ PowerCountdown(dt)
    /\ CompleteIfMet
    /\ RestartIfDead
    /\ UNCHANGED <<variant, jumpVars, spent, hadScore, health, energy, level, scene, slide, _brain, _virus, orbs,
                   powerups, hubVars, clickVars>>

\* One frame of a running level: the clock advances by dt and update(time, dt)
\* runs.  The two levels differ in the order of their last two statements,
\* which do not read what the other writes.  applyMoveAndJump() reads and
\* writes the controller's own fields alone, which nothing else in the frame
\* reads: this action leaves them out, JumpFrame is the frame with them.
update(dt) ==
    /\ scene \in Levels
    /\ queue = <<>>
    /\ (~_completed /\ ObjectivesMet) => stars < MaxStars
    /\ frame' = 1 - frame
    /\ sinceHit' = Min(sinceHit + dt, HIT_COOLDOWN_MS)
    /\ sinceDamage' = Min(sinceDamage + dt, HIT_COOLDOWN_MS)
    /\ IF _completed
       THEN UNCHANGED <<progressVars, powerMode, powerTimer, viruses, _completed,
                        isPaused, queue>>
       ELSE /\ PowerCountdown(dt)
            /\ CompleteIfMet
            /\ RestartIfDead
    /\ UNCHANGED <<variant, jumpVars, spent, hadScore, health, energy, level, scene, slide, _brain, _virus, orbs,
                   powerups, hubVars, clickVars>>

\* complete(): btn.on("pointerdown") of the results panel
NextClick ==
    /\ scene \in Levels
    /\ _completed
    /\ Enqueue(IF scene = "LungsLevel" \/ variant = "v3" THEN "BodyMap" ELSE "TravelHL")
    /\ Clicked("nextBtn")
    /\ UNCHANGED <<variant, jumpVars, spent, hadScore, progressVars, runVars, level, scene, slide, levelVars,
                   sinceDamage, hubVars, frame>>

\* ------------------------------------------------------------ the hub
\* HeartBtnClick that takes the star whatever the button's state and G hold
HeartBtnClick_Unchecked ==
    /\ scene = "BodyMap"
    /\ lastClick' = "heartBtn"
    /\ toast' = "Heart valve repaired! Lungs unlocked."
    /\ SetStore(setSystem(persist([Store EXCEPT !.stars = @ - 1]), "heart", TRUE))
    /\ UNCHANGED <<variant, jumpVars, spent, hadScore, runVars, level, scene, queue, slide, levelVars, sinceDamage,
                   hubVars, frame>>

\* HeartBtnClick whose handler runs without a listener test and without
\* if (G.systems.heart) return
HeartBtnClick_NoGuard ==
    /\ scene = "BodyMap"
    /\ lastClick' = "heartBtn"
    /\ IF stars < 1
       THEN /\ toast' = "Earn a star by completing a level first."
            /\ UNCHANGED <<progressVars, hubVars, spent>>
       ELSE LET s == setSystem(addStars(Store, -1), "heart", TRUE) IN
            /\ SetStore(s)
            /\ spent' = spent + 1
            /\ toast' = "Heart valve repaired! Lungs unlocked."
            /\ heartBtnOn' = (~s.systems.heart /\ s.stars >= 1)
            /\ lungsBtnOn' = s.systems.heart
    /\ UNCHANGED <<variant, jumpVars, hadScore, runVars, level, scene, queue, slide, levelVars, sinceDamage,
                   frame>>

\* BodyMapScene.create: the heart button's onClick, attached by button() only
\* when the button is enabled; redraw() sets the two buttons' listeners again
HeartBtnClick ==
    /\ scene = "BodyMap"
    /\ lastClick' = "heartBtn"
    /\ IF ~heartBtnOn \/ systems.heart
       THEN /\ toast' = ""
            /\ UNCHANGED <<progressVars, hubVars, spent>>
       ELSE IF stars < 1
       THEN /\ toast' = "Earn a star by completing a level first."
            /\ UNCHANGED <<progressVars, hubVars, spent>>
       ELSE LET s == setSystem(addStars(Store, -1), "heart", TRUE) IN
            /\ SetStore(s)
            /\ spent' = spent + 1
            /\ toast' = "Heart valve repaired! Lungs unlocked."
            /\ heartBtnOn' = (~s.systems.heart /\ s.stars >= 1)
            /\ lungsBtnOn' = s.systems.heart
    /\ UNCHANGED <<variant, jumpVars, hadScore, runVars, level, scene, queue, slide, levelVars, sinceDamage,
                   frame>>

\* Two different levels started from the hub in one game step would both
\* run; a pointer event on the hub is taken to come at least one game step
\* after one that started another level.
HubStart(key) ==
    /\ \A i \in 1..Len(queue) : queue[i] = key
    /\ Enqueue(key)

\* BodyMapScene.create: the lungs button's onClick
LungsBtnClick ==
    /\ scene = "BodyMap"
    /\ lastClick' = "lungsBtn"
    /\ IF ~lungsBtnOn
       THEN /\ toast' = ""
            /\ UNCHANGED <<level, queue>>
       ELSE IF ~systems.heart
       THEN /\ toast' = "Repair the Heart first (star 1)."
            /\ UNCHANGED <<level, queue>>
       ELSE /\ toast' = ""
            /\ level' = 2
            /\ HubStart("LungsLevel")
    /\ UNCHANGED <<variant, jumpVars, spent, hadScore, progressVars, runVars, scene, slide, levelVars, sinceDamage,
                   hubVars, frame>>

\* BodyMapScene.create: the replay button's onClick
ReplayBtnClick ==
    /\ scene = "BodyMap"
    /\ level' = 1
    /\ HubStart("CirculatoryLevel")
    /\ Clicked("replayBtn")
    /\ UNCHANGED <<variant, jumpVars, spent, hadScore, progressVars, runVars, scene, slide, levelVars, sinceDamage,
                   hubVars, frame>>

Next ==
    \/ ProcessQueue
    \/ TitleStart
    \/ BriefClick
    \/ CinematicNext
    \/ CinematicSkip
    \/ TravelToHeartDone
    \/ TravelHLDone
    \/ OrbOverlap
    \/ PowerupOverlap
    \/ \E v \in 1..LungsViruses : VirusOverlap(v)
    \/ \E dt \in Deltas : update(dt)
    \/ NextClick
    \/ HeartBtnClick
    \/ LungsBtnClick
    \/ ReplayBtnClick

Spec == Init /\ [][Next]_vars

\* ------------------------------------------------ opening the page
\* What the storage key may hold when the page is opened, well formed or not
StoredTexts ==
    {NoItem, Unparsable, JsonLiteral("null"), JsonLiteral("0"), JsonLiteral("7")}
    \cup {JsonObject(st, sy, fa) :
            st \in {JsonMissing, JsonNull, JsonNum(-1), JsonNum(1), JsonStr("7")},
            sy \in {JsonMissing, JsonStr("on")}
                   \cup {[t |-> "obj", heart |-> h, lungs |-> l] :
                            h \in {"true", "false", "1"}, l \in {"true", "false", "1"}},
            fa \in {JsonMissing, JsonStr("none"), [t |-> "arr", a |-> <<>>],
                    [t |-> "arr", a |-> <<FactHeartPumps>>],
                    [t |-> "arr", a |-> <<FactHeartPumps, FactHeartPumps>>]}}

\* The effect that mounts the game is about to run: the G literal's values,
\* no Phaser game yet
LoadInit ==
    /\ variant \in Variants
    /\ storage \in StoredTexts
    /\ stars = DefaultProgress.stars
    /\ systems = DefaultProgress.systems
    /\ facts = DefaultProgress.facts
    /\ health = FULL_HEALTH
    /\ energy = 0
    /\ level = 1
    /\ powerMode = FALSE
    /\ powerTimer = 0
    /\ scene = ""
    /\ queue = <<>>
    /\ slide = 0
    /\ _completed = FALSE
    /\ isPaused = FALSE
    /\ sinceHit = HIT_COOLDOWN_MS
    /\ _brain = FALSE
    /\ _virus = FALSE
    /\ orbs = 0
    /\ powerups = 0
    /\ viruses = <<>>
    /\ heartBtnOn = FALSE
    /\ lungsBtnOn = FALSE
    /\ lastClick = ""
    /\ toast = ""
    /\ frame = 0
    /\ sinceDamage = HIT_COOLDOWN_MS
    /\ spent = 0
    /\ hadScore = FALSE
    /\ NoCursors

\* The effect: G.load(), then new Phaser.Game(config), whose Boot scene
\* queues Title
Mount ==
    /\ scene = ""
    /\ LET g == load(Snapshot(Store), storage) IN
        /\ stars' = g.stars
        /\ systems' = g.systems
        /\ facts' = g.facts
    /\ scene' = "Boot"
    /\ queue' = <<"Title">>
    /\ UNCHANGED <<variant, jumpVars, spent, hadScore, storage, runVars, level, slide, levelVars, hubVars,
                   clickVars, frame, sinceDamage>>

LoadNext == Mount

LoadSpec == LoadInit /\ [][LoadNext]_vars

\* ------------------------------------------- the player controller
\* scene.input.keyboard.on("keydown-UP"): jumpBufferTime = time.now
KeydownUp ==
    /\ scene \in Levels
    /\ queue = <<>>
    /\ presses < MaxPresses
    /\ jumpBufferAge' = 0
    /\ presses' = presses + 1
    /\ sincePress' = 0
    /\ pressed' = TRUE
    /\ UNCHANGED <<variant, spent, hadScore, progressVars, runVars, level, scene, queue, slide,
                   levelVars, hubVars, clickVars, frame, sinceDamage, coyoteAge, jumps,
                   sinceGround, grounded>>

\* canUseBuffer && hasCoyote, dt after the state and with the player on the
\* ground or not: if (onGround) coyoteTime = time.now comes first
CanJump(dt, onGround) ==
    /\ Aged(jumpBufferAge, dt) <= JUMP_BUFFER_MS
    /\ (IF onGround THEN 0 ELSE Aged(coyoteAge, dt)) <= COYOTE_TIME_MS

\* applyMoveAndJump that leaves coyoteTime as it is when it jumps
applyMoveAndJump_KeepCoyote(dt, onGround) ==
    IF CanJump(dt, onGround)
    THEN /\ jumps' = jumps + 1
         /\ jumpBufferAge' = StaleAge
         /\ coyoteAge' = IF onGround THEN 0 ELSE Aged(coyoteAge, dt)
    ELSE /\ jumps' = jumps
         /\ jumpBufferAge' = Aged(jumpBufferAge, dt)
         /\ coyoteAge' = IF onGround THEN 0 ELSE Aged(coyoteAge, dt)

\* applyMoveAndJump(scene), dt after the state, as far as the jump goes
applyMoveAndJump(dt, onGround) ==
    IF CanJump(dt, onGround)
    THEN /\ jumps' = jumps + 1
         /\ jumpBufferAge' = StaleAge
         /\ coyoteAge' = StaleAge
    ELSE /\ jumps' = jumps
         /\ jumpBufferAge' = Aged(jumpBufferAge, dt)
         /\ coyoteAge' = IF onGround THEN 0 ELSE Aged(coyoteAge, dt)

\* One frame of a running level with its player controller: update(time, dt)
\* dt after the state, the physics step having found the player on the ground
\* or not
JumpFrame(dt, onGround) ==
    /\ scene \in Levels
    /\ queue = <<>>
    /\ (~_completed /\ ObjectivesMet) => stars < MaxStars
    /\ frame' = 1 - frame
    /\ sinceHit' = Min(sinceHit + dt, HIT_COOLDOWN_MS)
    /\ sinceDamage' = Min(sinceDamage + dt, HIT_COOLDOWN_MS)
    /\ IF _completed
       THEN UNCHANGED <<progressVars, powerMode, powerTimer, viruses, _completed,
                        isPaused, queue, jumpBufferAge, coyoteAge, jumps>>
       ELSE /\ PowerCountdown(dt)
            /\ applyMoveAndJump(dt, onGround)
            /\ CompleteIfMet
            /\ RestartIfDead
    /\ sincePress' = Aged(sincePress, dt)
    /\ sinceGround' = IF onGround THEN 0 ELSE Aged(sinceGround, dt)
    /\ pressed' = (pressed /\ jumps' = jumps)
    /\ grounded' = ((grounded \/ onGround) /\ jumps' = jumps)
    /\ UNCHANGED <<variant, spent, hadScore, health, energy, level, scene, slide, _brain,
                   _virus, orbs, powerups, hubVars, clickVars, presses>>

\* The Circulatory level of the investor demo build in a session that found
\* no stored record: just created, or completed by the first frame that came
\* after ten orbs and the bonus
JumpInit ==
    /\ variant = "v3"
    /\ scene = "CirculatoryLevel"
    /\ queue = <<>>
    /\ level = 1
    /\ slide = 0
    /\ health = FULL_HEALTH
    /\ sinceHit = HIT_COOLDOWN_MS
    /\ sinceDamage = HIT_COOLDOWN_MS
    /\ _virus = FALSE
    /\ heartBtnOn = FALSE
    /\ lungsBtnOn = FALSE
    /\ lastClick = ""
    /\ toast = ""
    /\ spent = 0
    /\ hadScore = FALSE
    /\ NoCursors
    /\ \/ /\ _completed = FALSE
          /\ isPaused = FALSE
          /\ frame = 0
          /\ energy = 0
          /\ orbs = CirculatoryOrbs
          /\ powerups = 1
          /\ _brain = FALSE
          /\ powerMode = FALSE
          /\ powerTimer = 0
          /\ viruses = FreshViruses("CirculatoryLevel")
          /\ stars = 0
          /\ systems = DefaultProgress.systems
          /\ facts = <<>>
          /\ storage = NoItem
       \/ /\ _completed = TRUE
          /\ isPaused = TRUE
          /\ frame = 1
          /\ energy = CirculatoryMaxE
          /\ orbs = CirculatoryOrbs - CirculatoryMaxE
          /\ powerups = 0
          /\ _brain = TRUE
          /\ powerMode = TRUE
          /\ powerTimer = POWER_MS - 600
          /\ viruses = SetVulnerable(FreshViruses("CirculatoryLevel"), TRUE)
          /\ stars = 1
          /\ systems = [heart |-> TRUE, lungs |-> FALSE]
          /\ facts = <<FactHeartPumps>>
          /\ storage = Stringify([stars |-> 1, systems |-> [heart |-> TRUE, lungs |-> FALSE],
                                  facts |-> <<FactHeartPumps>>])

JumpNext ==
    \/ KeydownUp
    \/ \E dt \in JumpDeltas, onGround \in BOOLEAN : JumpFrame(dt, onGround)

JumpSpec == JumpInit /\ [][JumpNext]_vars

\* ------------------------------------------------------------ properties
\* A step that runs one frame of the running level
Tick == frame' # frame

\* A step in which the scene manager starts what was queued, a level among it
LevelEntry == queue # <<>> /\ \E i \in 1..Len(queue) : queue[i] \in Levels

\* C1: a frame of a level that is not completed completes it if and only if
\* energy equals the level's threshold (10, 12) and the bonus was collected or
\* an enemy was defeated; a level is completed by no other step.
C1_CompletionIff ==
    [][ /\ (Tick /\ ~_completed) =>
             (_completed' <=> (energy = MaxE(scene) /\ (_brain \/ _virus)))
        /\ (~_completed /\ _completed') => Tick ]_vars

\* C1: the Circulatory level completed with 10/10, the bonus and no enemy defeated
C1_Witness ==
    /\ scene = "CirculatoryLevel"
    /\ _completed
    /\ energy = CirculatoryMaxE
    /\ _brain
    /\ ~_virus

\* C2: energy never exceeds the running level's threshold, and a pickup adds
\* exactly 1 below the threshold and 0 at it.
C2_EnergyCapped ==
    /\ [](scene \in Levels => energy \in 0..MaxE(scene))
    /\ [][(queue = <<>> /\ orbs' = orbs - 1) =>
            energy' = (IF energy < MaxE(scene) THEN energy + 1 ELSE energy)]_vars

\* C2: every orb of the Lungs level picked up, two of them at the threshold
C2_Witness ==
    /\ scene = "LungsLevel"
    /\ orbs = 0
    /\ energy = LungsMaxE

\* C3: health is always within 0..100.
C3_HealthInRange == health \in 0..FULL_HEALTH

\* C3: ten damaging contacts have brought health to 0
C3_Witness == scene \in Levels /\ health = 0

\* C4: a frame that finds health at 0 queues the level's restart, the level
\* entry that follows starts from health 100, energy 0, power mode off, timer 0
\* and both sub-goals false, and a level running with health 0 has not run a
\* frame since the contact that took the last health.
C4_RestartAtZero ==
    /\ [][ /\ (Tick /\ health = 0) => (queue' # <<>> /\ queue'[1] = scene)
           /\ (LevelEntry /\ queue' = <<>>) =>
                 /\ health' = FULL_HEALTH
                 /\ energy' = 0
                 /\ ~powerMode'
                 /\ powerTimer' = 0
                 /\ ~_brain'
                 /\ ~_virus'
           /\ (scene \in Levels /\ queue = <<scene>> /\ queue' = <<>>) => scene' = scene
         ]_vars
    /\ []((scene \in Levels /\ queue = <<>> /\ health = 0) => sinceDamage = 0)

\* C4: the frame after the lethal contact has queued the restart
C4_Witness ==
    /\ scene \in Levels
    /\ queue = <<scene>>
    /\ health = 0
    /\ ~_completed

\* C5 as stated: whenever a contact takes health, the contact that took
\* health before it is at least 650 ms old, level restarts in between included.
C5_Original ==
    [][health' < health => sinceDamage >= HIT_COOLDOWN_MS]_vars

\* C5: within one level attempt a contact takes health, and then exactly 10,
\* only if no contact of this attempt took health yet or the last one that did
\* is at least 650 ms old; health below 100 tells that one did.
C5_CooldownPerAttempt ==
    [][health' < health =>
         /\ health' = health - HIT_DAMAGE
         /\ (health = FULL_HEALTH \/ sinceDamage >= HIT_COOLDOWN_MS)]_vars

\* C5: 600 ms after the contact that took 10, a hostile enemy can touch the player
C5_Witness ==
    /\ Playing
    /\ ~powerMode
    /\ viruses # <<>>
    /\ health = FULL_HEALTH - HIT_DAMAGE
    /\ sinceDamage > 0
    /\ sinceDamage < HIT_COOLDOWN_MS

\* C6: the remaining power time is always within 0..6000, and picking up the
\* bonus sets it to exactly 6000 with power mode on.
C6_PowerTimerInRange ==
    /\ [](powerTimer \in 0..POWER_MS)
    /\ [][(queue = <<>> /\ powerups' = powerups - 1) =>
            (powerMode' /\ powerTimer' = POWER_MS)]_vars

\* C6: the bonus was just picked up
C6_Witness ==
    /\ scene \in Levels
    /\ powerups = 0
    /\ powerMode
    /\ powerTimer = POWER_MS

\* C7 as stated: every frame that finds power mode on lowers the remaining time.
C7_Original ==
    [][(Tick /\ powerMode) => powerTimer' < powerTimer]_vars

\* C7: every frame of a level that is not completed and finds power mode on
\* lowers the remaining time, by the frame's duration or to 0; a frame of a
\* completed level leaves power mode and the remaining time as they are.
C7_CountdownUntilCompleted ==
    [][ /\ (Tick /\ powerMode /\ ~_completed) =>
             /\ powerTimer' < powerTimer
             /\ \E dt \in Deltas : powerTimer' = Max(powerTimer - dt, 0)
        /\ (Tick /\ _completed) => UNCHANGED <<powerMode, powerTimer>> ]_vars

\* C7: power mode is on in a level not completed, and frames have run since the pickup
C7_Witness ==
    /\ scene \in Levels
    /\ ~_completed
    /\ powerMode
    /\ powerTimer > 0
    /\ powerTimer < POWER_MS

\* C8: a click on the hub's heart button while G.stars < 1 leaves G.stars,
\* G.systems, G.facts and the stored record as they are.
C8_RepairRefused ==
    [][(lastClick' = "heartBtn" /\ stars < 1) => UNCHANGED progressVars]_vars

\* C8: the heart button was clicked on the hub with no star
C8_Witness ==
    /\ scene = "BodyMap"
    /\ lastClick = "heartBtn"
    /\ stars < 1

\* C9 as stated: a click on the heart button without a star, and a click on the
\* lungs button while the heart is not repaired, open a toast.
C9_ToastOnRefusal ==
    [][ /\ (lastClick' = "heartBtn" /\ stars < 1) => toast' # ""
        /\ (lastClick' = "lungsBtn" /\ ~systems.heart) => toast' # "" ]_vars

\* C10: what G.load() reads in a fresh session from the record G.persist()
\* writes is G's { stars, systems, facts }.
C10_RoundTrip ==
    load(DefaultProgress, persist(Store).storage) = Snapshot(Store)

\* C10: a level's rewards were persisted: a star, a system and facts
C10_Witness ==
    /\ stars >= 1
    /\ systems.heart
    /\ facts # <<>>
    /\ storage = Stringify(Snapshot(Store))

\* C11 as stated, field by field: after G.load(), a missing item, an
\* unparsable text and a stored null leave the default state, and in a stored
\* object a stars field that is missing or no number gives stars 0, a systems
\* field that is missing or no object gives both systems false, a facts field
\* that is missing or no array gives no facts.
C11_DefaultsOnMalformed ==
    scene = "Boot" =>
        LET p == loadProgress(storage) IN
        /\ Falsy(p) => Snapshot(Store) = DefaultProgress
        /\ ~Falsy(p) =>
             /\ Field(p, "stars").t # "num" =>
                    (loadedStars(p).t = "num" /\ stars = 0)
             /\ Field(p, "systems").t # "obj" => systems = DefaultProgress.systems
             /\ Field(p, "facts").t # "arr" => facts = <<>>

\* C12 as stated: G.stars is never negative, whatever record G.load() read
\* and whatever completions and repairs followed.
C12_StarsNonNegative == stars >= 0

\* C13: a step that changes G.stars, G.systems, G.facts or the stored record
\* leaves the stored record equal to JSON.stringify of G's { stars, systems,
\* facts }, and once they are equal they stay equal.
C13_PersistedAfterMutation ==
    [][(\/ <<stars, systems, facts>>' # <<stars, systems, facts>>
        \/ storage' # storage
        \/ storage = Stringify(Snapshot(Store)))
       => storage' = Stringify(Snapshot(Store))']_vars

\* C13: the Lungs level's rewards were granted over a record that was absent
\* or unparsable at start-up
C13_Witness ==
    /\ scene = "LungsLevel"
    /\ _completed
    /\ systems.lungs
    /\ Len(facts) >= 2
    /\ stars = 2
    /\ storage = Stringify(Snapshot(Store))

\* C14: the Lungs level is never running, and never queued to start, while
\* systems.heart is false.
C14_LungsLocked ==
    /\ scene = "LungsLevel" => systems.heart
    /\ \A i \in 1..Len(queue) : queue[i] = "LungsLevel" => systems.heart

\* C14: the Lungs level of the build that enters it from the hub alone is running
C14_Witness ==
    /\ variant = "v4"
    /\ scene = "LungsLevel"
    /\ Playing
    /\ systems.heart
    /\ ~systems.lungs

C16_LungsAfterRepair ==
    [][(/\ scene = "BodyMap"
        /\ Len(queue') > Len(queue)
        /\ queue'[Len(queue')] = "LungsLevel") => spent >= 1]_vars

\* A step of the scene manager, which ends the running attempt
SceneChange == queue # <<>> /\ queue' = <<>>

ContactEffect(v) ==
    IF powerMode /\ viruses[v].vulnerable
    THEN /\ viruses' = Destroy(viruses, v)
         /\ _virus'
         /\ scoreGained' = scoreGained + (IF scene = "CirculatoryLevel" THEN 200 ELSE 220)
         /\ health' = health
    ELSE IF sinceHit >= HIT_COOLDOWN_MS
    THEN /\ health' = Max(health - 10, 0)
         /\ health' < health
         /\ viruses' = viruses
         /\ scoreGained' = scoreGained
    ELSE /\ health' = health
         /\ viruses' = viruses
         /\ scoreGained' = scoreGained

\* C18: a contact with a live enemy that is vulnerable while power mode is on
\* removes that enemy, sets _virus, adds 200 (Circulatory) or 220 (Lungs) to
\* the score and leaves health; any other contact takes exactly 10 health when
\* the cooldown has elapsed and nothing otherwise, and removes no enemy; no
\* other step of an attempt removes an enemy or takes health.
C18_EnemyContact ==
    [][ /\ \A v \in 1..LungsViruses : VirusOverlap(v) => ContactEffect(v)
        /\ (~SceneChange /\ (Len(viruses') < Len(viruses) \/ health' < health)) =>
              \E v \in DOMAIN viruses : VirusOverlap(v)
      ]_vars

\* C18: in the Lungs level an enemy took health and, later, one was defeated
C18_Witness ==
    /\ scene = "LungsLevel"
    /\ _virus
    /\ Len(viruses) = LungsViruses - 1
    /\ health = FULL_HEALTH - HIT_DAMAGE

\* C19: picking up the bonus finds power mode off and leaves it on with 6000 ms
\* to run, _brain set and every enemy of the group vulnerable; and in every
\* state of a level each enemy of the group is vulnerable exactly when power
\* mode is on.
C19_VulnerableMirrorsPower ==
    /\ [](scene \in Levels =>
            \A i \in DOMAIN viruses : viruses[i].vulnerable = powerMode)
    /\ [][(~SceneChange /\ powerups' < powerups) =>
            /\ ~powerMode
            /\ powerMode'
            /\ powerTimer' = POWER_MS
            /\ _brain'
            /\ Len(viruses') = Len(viruses)
            /\ \A i \in DOMAIN viruses' : viruses'[i].vulnerable]_vars

\* C19: the bonus was picked up with all three enemies of the Lungs level alive
C19_Witness ==
    /\ scene = "LungsLevel"
    /\ _brain
    /\ powerMode
    /\ Len(viruses) = LungsViruses
    /\ \A i \in DOMAIN viruses : viruses[i].vulnerable

\* The tick time accumulated since the bonus was picked up, while power mode is on
SincePower == POWER_MS - powerTimer

\* What the claim says a frame of dt ms does to power mode in an attempt that
\* is not completed
ExpiryEffect(dt) ==
    (powerMode /\ ~_completed) =>
        IF SincePower + dt >= POWER_MS
        THEN /\ ~powerMode'
             /\ powerTimer' = 0
             /\ \A i \in DOMAIN viruses' : ~viruses'[i].vulnerable
        ELSE /\ powerMode'
             /\ powerTimer' = powerTimer - dt
             /\ viruses' = viruses

\* The next game step of a running level can be taken
StepPossible ==
    IF queue # <<>> THEN ENABLED ProcessQueue ELSE ENABLED (\E dt \in Deltas : update(dt))

\* C20: in an attempt that is not completed, a frame ends power mode (power
\* mode off, remaining time 0, every enemy of the group not vulnerable) exactly
\* when the tick time accumulated since the pickup reaches 6000 ms with it, and
\* otherwise leaves power mode on with the frame's duration taken off the
\* remaining time; nothing else in an attempt ends power mode.  Power mode
\* always ends: while it is on the accumulated time is below 6000 ms, no step
\* of the attempt lowers it, every frame adds its duration, and the next game
\* step can always be taken, unless the objectives are met and the frame
\* completes the level.
C20_PowerExpires ==
    /\ [][ /\ \A dt \in Deltas : update(dt) => ExpiryEffect(dt)
           /\ (powerMode /\ ~powerMode' /\ ~SceneChange) =>
                 \E dt \in Deltas : update(dt) /\ SincePower + dt >= POWER_MS
           /\ (powerMode /\ powerMode' /\ ~SceneChange) => powerTimer' <= powerTimer
         ]_vars
    /\ [](scene \in Levels /\ powerMode => SincePower \in 0..(POWER_MS - 1))
    /\ []((scene \in Levels /\ powerMode /\ ~_completed /\ ~ObjectivesMet) => StepPossible)

\* C20: a frame has just ended power mode with an enemy of the group alive
C20_Witness ==
    /\ scene \in Levels
    /\ ~_completed
    /\ _brain
    /\ ~powerMode
    /\ powerTimer = 0
    /\ viruses # <<>>
    /\ \A i \in DOMAIN viruses : ~viruses[i].vulnerable
    /\ health = FULL_HEALTH

\* C21: every level entry (first start, replay from the hub, restart after a
\* failure) leaves health 100, energy 0, power mode off, remaining power time 0,
\* _brain, _virus and _completed false, the damage cooldown elapsed, and the
\* level's full group of enemies, none of them vulnerable.
C21_FreshRunState ==
    [][(SceneChange /\ scene' \in Levels) =>
         /\ health' = FULL_HEALTH
         /\ energy' = 0
         /\ ~powerMode'
         /\ powerTimer' = 0
         /\ ~_brain'
         /\ ~_virus'
         /\ ~_completed'
         /\ ~InCooldown'
         /\ Len(viruses') = VirusCount(scene')
         /\ \A i \in DOMAIN viruses' : ~viruses'[i].vulnerable]_vars

\* C21: a level was entered again less than 650 ms after a contact took health:
\* the attempt before it failed and was restarted
C21_Witness ==
    /\ scene \in Levels
    /\ queue = <<>>
    /\ sinceDamage < HIT_COOLDOWN_MS
    /\ health = FULL_HEALTH
    /\ energy = 0
    /\ orbs = OrbCount(scene)
    /\ powerups = 1

\* G.score > 0
scorePositive == hadScore \/ scoreGained > 0

\* C22 as stated: a level entry leaves G.stars, G.systems, G.facts and the
\* stored record as they are, and the attempt it starts begins with no score
\* of an attempt before it.
C22_OnlyProgressSurvives ==
    [][(SceneChange /\ scene' \in Levels) =>
         /\ UNCHANGED progressVars
         /\ ~scorePositive']_vars

\* s is the beginning of t
IsPrefix(s, t) == Len(s) <= Len(t) /\ SubSeq(t, 1, Len(s)) = s

\* C24 as stated: in every state after G.load(), G.facts holds no fact twice;
\* a step that changes G.facts appends facts that were not in it and leaves
\* the ones it held in place; a system flag that is true stays true.
C24_FactsUniqueMonotone ==
    /\ [](\A i, j \in 1..Len(facts) : facts[i] = facts[j] => i = j)
    /\ [][ /\ IsPrefix(facts, facts')
           /\ \A i \in (Len(facts) + 1)..Len(facts') : ~Includes(facts, facts'[i])
           /\ systems.heart => systems'.heart
           /\ systems.lungs => systems'.lungs ]_vars

\* The scene changes of the narrative flow build: from, to
FlowEdges ==
    {<<"Boot", "Title">>, <<"Title", "MissionBrief">>, <<"MissionBrief", "Cinematic">>,
     <<"Cinematic", "TravelToHeart">>, <<"TravelToHeart", "CirculatoryLevel">>,
     <<"CirculatoryLevel", "TravelHL">>, <<"TravelHL", "LungsLevel">>,
     <<"LungsLevel", "BodyMap">>}

\* C25: in the narrative flow build, until the hub is reached every scene
\* change follows the order Title, MissionBrief, Cinematic, TravelToHeart,
\* CirculatoryLevel, TravelHL, LungsLevel, BodyMap or restarts the running
\* level, and from the hub on the only other changes are the hub's two level
\* buttons; a level is left for another scene only when it is completed; and,
\* the session having started with no facts, the scenes after the Circulatory
\* level run only once its completion has added its facts, the hub only once
\* the Lungs level's completion has added its own.
C25_NarrativeOrder ==
    /\ [][(variant = "v5" /\ SceneChange) =>
            /\ \/ <<scene, scene'>> \in FlowEdges
               \/ scene \in Levels /\ scene' = scene /\ health = 0
               \/ scene = "BodyMap" /\ scene' \in Levels \cup {"BodyMap"}
            /\ (scene \in Levels /\ scene' # scene) => _completed ]_vars
    /\ []((variant = "v5" /\ scene \in {"TravelHL", "LungsLevel", "BodyMap"})
              => Includes(facts, FactHeartPumps) /\ systems.heart)
    /\ []((variant = "v5" /\ scene = "BodyMap")
              => Includes(facts, FactAlveoli) /\ systems.lungs)

\* C25: the hub of the narrative flow build, reached for the first time
C25_Witness ==
    /\ variant = "v5"
    /\ scene = "BodyMap"
    /\ lastClick = ""
    /\ systems.lungs
    /\ facts = <<FactHeartPumps, FactValves, FactAlveoli, FactDiaphragm>>

\* C26: in every state of a level, _virus implies _brain, and the condition
\* update() tests before complete() is equivalent to energy at the threshold
\* and _brain; an enemy leaves the group of the running attempt only while
\* power mode is on, and power mode goes on only in the step that picks up
\* the bonus and sets _brain.
C26_DefeatNeedsBonus ==
    /\ [](scene \in Levels =>
            /\ _virus => _brain
            /\ ObjectivesMet <=> (energy >= MaxE(scene) /\ _brain))
    /\ [][ /\ (~SceneChange /\ Len(viruses') < Len(viruses)) => (powerMode /\ _brain)
           /\ (~powerMode /\ powerMode') => (powerups' = powerups - 1 /\ _brain') ]_vars

\* C26: an enemy was defeated and the energy is at the threshold
C26_Witness ==
    /\ scene \in Levels
    /\ _virus
    /\ _brain
    /\ energy = MaxE(scene)
    /\ Len(viruses) < VirusCount(scene)

\* C27 as stated: a frame that finds health at 0 grants no reward, and no frame
\* both queues the restart of the level and changes G.stars, G.facts,
\* G.systems or the stored record.
C27_NoRewardAtZeroHealth ==
    [][ /\ (Tick /\ health = 0) => UNCHANGED progressVars
        /\ (Tick /\ queue' = <<scene>>) => UNCHANGED progressVars ]_vars

\* C28: no step taken while power mode is on lowers health: a contact with an
\* enemy in power mode leaves health as it is, whatever the cooldown, because
\* every enemy of the group is vulnerable while power mode is on.
C28_NoDamageInPowerMode ==
    [][ /\ powerMode => health' >= health
        /\ \A v \in 1..LungsViruses :
              (VirusOverlap(v) /\ powerMode) =>
                  (viruses[v].vulnerable /\ health' = health /\ Len(viruses') = Len(viruses) - 1)
      ]_vars

\* C28: in power mode, with the damage cooldown elapsed and health to lose, an
\* enemy was touched and another one is still alive
C28_Witness ==
    /\ Playing
    /\ powerMode
    /\ _virus
    /\ viruses # <<>>
    /\ ~InCooldown
    /\ health = FULL_HEALTH - HIT_DAMAGE

\* C29 as stated: G.level is 1 whenever the Circulatory level is the running
\* scene and 2 whenever the Lungs level is.
C29_LevelMatchesScene ==
    /\ scene = "CirculatoryLevel" => level = 1
    /\ scene = "LungsLevel" => level = 2

\* A click on the heart button that takes a star
Repair == HeartBtnClick /\ spent' = spent + 1

\* C30 as stated, for the hub as the code reaches it: on the hub, with a star
\* in hand and no star spent so far, the heart is not yet repaired and the
\* repair can be taken.
C30_RepairOffered ==
    (scene = "BodyMap" /\ stars >= 1 /\ spent = 0) =>
        (~systems.heart /\ ENABLED Repair)

\* What the claim says makes a frame jump: a keydown-UP event that no jump has
\* used is at most 140 ms old at the frame, and so is a frame, this one or one
\* after the last jump, that found the player on the ground
JumpDue ==
    /\ pressed
    /\ sincePress' <= JUMP_BUFFER_MS
    /\ sinceGround' = 0 \/ grounded
    /\ sinceGround' <= COYOTE_TIME_MS

\* C23 as stated: every frame of a level jumps exactly when a press and a
\* ground contact no jump has used are both at most 140 ms old.
C23_Original ==
    [][Tick => (jumps' = jumps + 1 <=> JumpDue)]_vars

\* C23: a frame of a level that is not completed jumps exactly when a press
\* and a ground contact no jump has used are both at most 140 ms old; a frame
\* of a completed level does not jump; a jump is made by a frame alone and
\* uses up the press and the ground contact, so that the level never jumps
\* more often than UP was pressed.
C23_JumpBufferCoyote ==
    /\ [][ /\ (Tick /\ ~_completed) => (jumps' = jumps + 1 <=> JumpDue)
           /\ (Tick /\ _completed) => jumps' = jumps
           /\ jumps' # jumps =>
                 /\ Tick
                 /\ jumps' = jumps + 1
                 /\ ~pressed'
                 /\ ~grounded'
                 /\ jumpBufferAge' > JUMP_BUFFER_MS
                 /\ coyoteAge' > COYOTE_TIME_MS ]_vars
    /\ [](jumps <= presses)

\* C23: the player left the ground, UP was pressed 100 ms later and the next
\* frame, 140 ms after the ground contact, has jumped
C23_Witness ==
    /\ scene = "CirculatoryLevel"
    /\ ~_completed
    /\ jumps = 1
    /\ presses = 1
    /\ ~pressed
    /\ sincePress = 40
    /\ sinceGround = COYOTE_TIME_MS

====
